---- MODULE Spec2Model ----
(***************************************************************************)
(* Ration-Mitr dashboard (src/app.py): the cached aggregation pipeline     *)
(* load_and_process_data and the Streamlit script that derives the region  *)
(* filter, the KPI row, the hotspot chart and the alert table from it.     *)
(*                                                                         *)
(* Encoding.  State and district names are coded by their rank in          *)
(* lexicographic order (1, 2, ...), so that "<" on codes is the order      *)
(* pandas sorts the names in.  Migration_Score is kept in hundredths       *)
(* (60.0 is 6000) and Grain_Demand_MT in tenths (2.4 is 24): the two       *)
(* Series.round calls of the source are modelled by RoundHalfEven on the   *)
(* exact quotient.                                                         *)
(***************************************************************************)
EXTENDS Integers, Sequences, FiniteSets, TLC

VARIABLES
    demo_csv,        \* api_data_aadhar_demographic_0_500000.csv on disk
    enrol_csv,       \* api_data_aadhar_enrolment_0_500000.csv on disk
    cache,           \* the st.cache_data entry of load_and_process_data
    cache_src,       \* history: the two files as the cached body execution read them
    pc,              \* position of the script run
    df,              \* line 66
    selected_state,  \* line 80
    df_view,         \* lines 83/85
    kpi,             \* lines 120-122
    top_districts,   \* line 137
    alerts,          \* lines 163-171
    rendered         \* the widgets this run has put on the page

vars == <<demo_csv, enrol_csv, cache, cache_src, pc, df, selected_state,
          df_view, kpi, top_districts, alerts, rendered>>

-----------------------------------------------------------------------------
(* Bounds of the model. *)

\* rows of a CSV file in the small input family
MaxRows == 2
\* districts of the large input family (one row per district in each file)
WideRows == 18

-----------------------------------------------------------------------------
(* Program constants. *)

\* "All India", the first entry of the select box (no filter)
AllIndia == 0
\* head(10)
TopN == 10
\* score > 50
CriticalAbove == 50
\* score > 20
WarningAbove == 20
\* .round(2): scores are kept in hundredths
ScoreScale == 100
\* .round(1): grain demand is kept in tenths
GrainScale == 10
\* * 0.02, as 2 per GrainPer
GrainFactor == 2
GrainPer == 100

-----------------------------------------------------------------------------
(* Files and values. *)

Missing == [st |-> "missing", rows |-> <<>>]
Malformed == [st |-> "malformed", rows |-> <<>>]
Ok(rows) == [st |-> "ok", rows |-> rows]

NoneResult == [kind |-> "None", rows |-> <<>>]
Table(rows) == [kind |-> "table", rows |-> rows]
Raised == [kind |-> "raise", rows |-> <<>>]
Unset == [kind |-> "unset", rows |-> <<>>]

NoCache == [hit |-> FALSE, value |-> Unset]
NoSrc == [demo |-> Missing, enrol |-> Missing]

Range(s) == {s[i] : i \in DOMAIN s}

-----------------------------------------------------------------------------
(* load_and_process_data: the body, stage by stage. *)

Key(r) == <<r.state, r.district>>

\* the order groupby sorts its group keys in: by state, then by district
KeyLess(a, b) == a[1] < b[1] \/ (a[1] = b[1] /\ a[2] < b[2])

RECURSIVE SortedKeys(_)
SortedKeys(K) ==
    IF K = {} THEN <<>>
    ELSE LET m == CHOOSE k \in K : \A o \in K \ {k} : KeyLess(k, o)
         IN  <<m>> \o SortedKeys(K \ {m})

\* the sum of column col over the rows of group k
RECURSIVE SumWhere(_, _, _)
SumWhere(rows, col, k) ==
    IF rows = <<>> THEN 0
    ELSE (IF Key(Head(rows)) = k THEN Head(rows)[col] ELSE 0)
         + SumWhere(Tail(rows), col, k)

\* df.groupby(['state', 'district'])[[col]].sum().reset_index():
\* one row per key, keys in sorted order
GroupBySum(rows, col) ==
    LET ks == SortedKeys({Key(rows[i]) : i \in DOMAIN rows})
    IN  [i \in DOMAIN ks |->
            ("state" :> ks[i][1]) @@ ("district" :> ks[i][2])
            @@ (col :> SumWhere(rows, col, ks[i]))]

\* a left join: every left row is kept, a missing right side counts 0
RECURSIVE MergeLeft(_, _)
MergeLeft(left, right) ==
    IF left = <<>> THEN <<>>
    ELSE LET l == Head(left)
             m == SelectSeq(right, LAMBDA r : Key(r) = Key(l))
         IN  (IF m = <<>>
              THEN <<[state |-> l.state, district |-> l.district,
                      demo_age_17_ |-> l.demo_age_17_, age_0_5 |-> 0]>>
              ELSE [j \in DOMAIN m |->
                      [state |-> l.state, district |-> l.district,
                       demo_age_17_ |-> l.demo_age_17_,
                       age_0_5 |-> m[j].age_0_5]])
             \o MergeLeft(Tail(left), right)

\* pd.merge(demo_agg, enrol_agg, on=['state', 'district'], how='inner'):
\* the rows whose key is on both sides, in the order of the left keys
RECURSIVE Merge(_, _)
Merge(left, right) ==
    IF left = <<>> THEN <<>>
    ELSE LET l == Head(left)
             m == SelectSeq(right, LAMBDA r : Key(r) = Key(l))
         IN  [j \in DOMAIN m |->
                 [state |-> l.state, district |-> l.district,
                  demo_age_17_ |-> l.demo_age_17_, age_0_5 |-> m[j].age_0_5]]
             \o Merge(Tail(left), right)

\* numpy's round (rint of the scaled value): the nearest integer to n / d, a
\* tie going to the even one (n >= 0, d > 0)
RoundHalfEven(n, d) ==
    LET q == n \div d
        r == n % d
    IN  IF 2 * r < d THEN q
        ELSE IF 2 * r > d THEN q + 1
        ELSE IF q % 2 = 0 THEN q ELSE q + 1

\* the quotient cut off after two decimals instead of rounded
MigrationScoreTruncated(demo, enrol) == (demo * ScoreScale) \div (enrol + 1)

\* (merged['demo_age_17_'] / (merged['age_0_5'] + 1)).round(2), in hundredths
MigrationScore(demo, enrol) == RoundHalfEven(demo * ScoreScale, enrol + 1)

\* the thresholds taken inclusively
get_status_inclusive(score) ==
    IF score >= CriticalAbove * ScoreScale THEN "CRITICAL"
    ELSE IF score >= WarningAbove * ScoreScale THEN "WARNING"
    ELSE "STABLE"

\* get_status, on a score in hundredths
get_status(score) ==
    IF score > CriticalAbove * ScoreScale THEN "CRITICAL"
    ELSE IF score > WarningAbove * ScoreScale THEN "WARNING"
    ELSE "STABLE"

\* the demand rounded to whole tons, kept in tenths
GrainDemandWhole(demo) ==
    GrainScale * RoundHalfEven(demo * GrainFactor, GrainPer)

\* (merged['demo_age_17_'] * 0.02).round(1), in tenths
GrainDemand(demo) == RoundHalfEven(demo * GrainFactor * GrainScale, GrainPer)

\* lines 48-59: the three derived columns of one merged row
Derive(m) ==
    LET score == MigrationScore(m.demo_age_17_, m.age_0_5)
    IN  [state |-> m.state, district |-> m.district,
         demo_age_17_ |-> m.demo_age_17_, age_0_5 |-> m.age_0_5,
         Migration_Score |-> score,
         Status |-> get_status(score),
         Grain_Demand_MT |-> GrainDemand(m.demo_age_17_)]

\* lines 41-61 on the rows of two files that were read
Process(demo_rows, enrol_rows) ==
    LET demo_agg == GroupBySum(demo_rows, "demo_age_17_")
        enrol_agg == GroupBySum(enrol_rows, "age_0_5")
        merged == Merge(demo_agg, enrol_agg)
    IN  [i \in DOMAIN merged |-> Derive(merged[i])]

\* lines 36-64.  pd.read_csv raises FileNotFoundError on a missing file, which
\* line 63 turns into None, and another exception (ParserError, EmptyDataError,
\* UnicodeDecodeError) on a malformed one, which nothing catches.  The
\* demographic file is read first.
LoadBody(demo, enrol) ==
    IF demo.st = "missing" THEN NoneResult
    ELSE IF demo.st = "malformed" THEN Raised
    ELSE IF enrol.st = "missing" THEN NoneResult
    ELSE IF enrol.st = "malformed" THEN Raised
    ELSE Table(Process(demo.rows, enrol.rows))

-----------------------------------------------------------------------------
(* The script below line 66: the region filter and the derived views. *)

\* ["All India"] + sorted(df['state'].unique().tolist()), as the set of options
state_list(rows) == {AllIndia} \cup {rows[i].state : i \in DOMAIN rows}

\* lines 82-85
FilterState(rows, s) ==
    IF s # AllIndia THEN SelectSeq(rows, LAMBDA r : r.state = s) ELSE rows

RECURSIVE SumCol(_, _)
SumCol(rows, col) ==
    IF rows = <<>> THEN 0 ELSE Head(rows)[col] + SumCol(Tail(rows), col)

\* lines 120-122
Kpi(rows) ==
    [total_influx |-> SumCol(rows, "demo_age_17_"),
     critical_count |-> Len(SelectSeq(rows, LAMBDA r : r.Status = "CRITICAL")),
     grain_needed |-> SumCol(rows, "Grain_Demand_MT")]

\* The first n rows of every arrangement of the rows S by descending
\* Migration_Score.  sort_values is called without kind=, so pandas sorts with
\* numpy's quicksort, which is not stable: rows of equal score come out in an
\* order that depends on the numpy build and on the number of rows.
RECURSIVE TopOrders(_, _)
TopOrders(S, n) ==
    IF n = 0 \/ S = {} THEN {<<>>}
    ELSE LET C == {r \in S : \A o \in S : o.Migration_Score <= r.Migration_Score}
         IN  UNION {{<<r>> \o t : t \in TopOrders(S \ {r}, n - 1)} : r \in C}

\* the first n rows of the table, and those sorted
HeadSortValues(rows, n) ==
    TopOrders(Range(SubSeq(rows, 1, IF Len(rows) < n THEN Len(rows) ELSE n)), n)

\* df_view.sort_values(by='Migration_Score', ascending=False).head(n):
\* the results it can have
SortValuesHead(rows, n) == TopOrders(Range(rows), n)

\* status_priority
AlertPriority(status) == IF status = "CRITICAL" THEN 0 ELSE 1

\* both sort keys ascending
AlertBeforeAscending(a, b) ==
    \/ a.priority_index < b.priority_index
    \/ /\ a.priority_index = b.priority_index
       /\ a.Grain_Demand_MT < b.Grain_Demand_MT

\* by=['priority_index', 'Grain_Demand_MT'], ascending=[True, False]
AlertBefore(a, b) ==
    \/ a.priority_index < b.priority_index
    \/ /\ a.priority_index = b.priority_index
       /\ a.Grain_Demand_MT > b.Grain_Demand_MT

\* x put behind the rows that do not come after it
RECURSIVE InsertSorted(_, _)
InsertSorted(s, x) ==
    IF s = <<>> THEN <<x>>
    ELSE IF AlertBefore(x, Head(s)) THEN <<x>> \o s
    ELSE <<Head(s)>> \o InsertSorted(Tail(s), x)

\* sort_values on two columns (pandas' lexsort_indexer, which is stable)
RECURSIVE SortAlerts(_)
SortAlerts(rows) ==
    IF rows = <<>> THEN <<>>
    ELSE InsertSorted(SortAlerts(SubSeq(rows, 1, Len(rows) - 1)), rows[Len(rows)])

\* lines 163-171
PriorityAlerts(rows) ==
    LET picked == SelectSeq(rows, LAMBDA r : r.Status \in {"CRITICAL", "WARNING"})
        indexed == [i \in DOMAIN picked |->
                       picked[i] @@ ("priority_index" :> AlertPriority(picked[i].Status))]
    IN  SortAlerts(indexed)

\* the script goes on below the sidebar after the error
AfterErrorContinue == "metrics"

\* st.stop() ends the run
AfterError == "stopped"

-----------------------------------------------------------------------------
(* Inputs. *)

DemoRow(s, d, n) == [state |-> s, district |-> d, demo_age_17_ |-> n]
EnrolRow(s, d, n) == [state |-> s, district |-> d, age_0_5 |-> n]

\* the rows a small demographic file is made of
DemoRows == {DemoRow(1, 1, 5), DemoRow(1, 1, 10), DemoRow(1, 2, 120), DemoRow(2, 1, 50)}

\* the rows a small enrolment file is made of
EnrolRows == {EnrolRow(1, 1, 0), EnrolRow(1, 1, 1), EnrolRow(1, 2, 1), EnrolRow(2, 1, 0)}

SeqsUpTo(S, n) == UNION {[1..k -> S] : k \in 0..n}

DemoFiles == {Missing, Malformed} \cup {Ok(rows) : rows \in SeqsUpTo(DemoRows, MaxRows)}
EnrolFiles == {Missing, Malformed} \cup {Ok(rows) : rows \in SeqsUpTo(EnrolRows, MaxRows)}

\* The large family: districts 1..WideRows, two neighbouring districts to a
\* state in turn, district i with a count of 5 * i, or 5 more for the districts
\* in up, which then tie with district i + 1; the file lists them backwards.
\* Two districts have an enrolment: the last one, which halves its score, and
\* district 4, whose quotient 4021 / 201 lies just above 20 and rounds to 20.00.
WideState(i) == 1 + ((i \div 2) % 2)
WideChoice == {i \in 1..WideRows : i % 2 = 0 /\ i > 6}
WideDemo(up) ==
    [j \in 1..WideRows |->
        LET i == WideRows + 1 - j
        IN  DemoRow(WideState(i), i,
                    IF i = 4 THEN 4021 ELSE 5 * i + (IF i \in up THEN 5 ELSE 0))]
WideEnrol ==
    [i \in 1..WideRows |->
        EnrolRow(WideState(i), i,
                 IF i = WideRows THEN 1 ELSE IF i = 4 THEN 200 ELSE 0)]

-----------------------------------------------------------------------------
(* The state machine. *)

\* what a script run starts with
FreshRun ==
    /\ df' = Unset
    /\ selected_state' = AllIndia
    /\ df_view' = Unset
    /\ kpi' = [total_influx |-> 0, critical_count |-> 0, grain_needed |-> 0]
    /\ top_districts' = <<>>
    /\ alerts' = <<>>
    /\ rendered' = {}

InitRun ==
    /\ cache = NoCache
    /\ cache_src = NoSrc
    /\ pc = "load"
    /\ df = Unset
    /\ selected_state = AllIndia
    /\ df_view = Unset
    /\ kpi = [total_influx |-> 0, critical_count |-> 0, grain_needed |-> 0]
    /\ top_districts = <<>>
    /\ alerts = <<>>
    /\ rendered = {}

Init ==
    /\ demo_csv \in DemoFiles
    /\ enrol_csv \in EnrolFiles
    /\ InitRun

InitView ==
    /\ demo_csv \in {Missing, Malformed} \cup {Ok(WideDemo(up)) : up \in SUBSET WideChoice}
    /\ enrol_csv = Ok(WideEnrol)
    /\ InitRun

\* line 66, the call answered from the cache
LoadHit ==
    /\ pc = "load"
    /\ cache.hit
    /\ df' = cache.value
    /\ pc' = "sidebar"
    /\ UNCHANGED <<demo_csv, enrol_csv, cache, cache_src, selected_state,
                   df_view, kpi, top_districts, alerts, rendered>>

\* line 66, the body run and its return value stored
LoadCompute ==
    /\ pc = "load"
    /\ ~cache.hit
    /\ LoadBody(demo_csv, enrol_csv).kind # "raise"
    /\ df' = LoadBody(demo_csv, enrol_csv)
    /\ cache' = [hit |-> TRUE, value |-> LoadBody(demo_csv, enrol_csv)]
    /\ cache_src' = [demo |-> demo_csv, enrol |-> enrol_csv]
    /\ pc' = "sidebar"
    /\ UNCHANGED <<demo_csv, enrol_csv, selected_state, df_view, kpi,
                   top_districts, alerts, rendered>>

\* line 66, the body run and its exception ending the run; nothing is stored
LoadRaise ==
    /\ pc = "load"
    /\ ~cache.hit
    /\ LoadBody(demo_csv, enrol_csv).kind = "raise"
    /\ pc' = "raised"
    /\ UNCHANGED <<demo_csv, enrol_csv, cache, cache_src, df, selected_state,
                   df_view, kpi, top_districts, alerts, rendered>>

\* lines 77-87
SidebarSelect(s) ==
    /\ pc = "sidebar"
    /\ df.kind = "table"
    /\ s \in state_list(df.rows)
    /\ selected_state' = s
    /\ df_view' = Table(FilterState(df.rows, s))
    /\ rendered' = rendered \cup {"system_online"}
    /\ pc' = "metrics"
    /\ UNCHANGED <<demo_csv, enrol_csv, cache, cache_src, df, kpi,
                   top_districts, alerts>>

\* lines 88-90
SidebarStop ==
    /\ pc = "sidebar"
    /\ df.kind = "None"
    /\ rendered' = rendered \cup {"data_missing"}
    /\ pc' = AfterError
    /\ UNCHANGED <<demo_csv, enrol_csv, cache, cache_src, df, selected_state,
                   df_view, kpi, top_districts, alerts>>

\* lines 97-127
Metrics ==
    /\ pc = "metrics"
    /\ kpi' = Kpi(df_view.rows)
    /\ rendered' = rendered \cup {"current_view", "kpi_row"}
    /\ pc' = "chart"
    /\ UNCHANGED <<demo_csv, enrol_csv, cache, cache_src, df, selected_state,
                   df_view, top_districts, alerts>>

\* lines 134-157
Chart ==
    /\ pc = "chart"
    /\ \E t \in SortValuesHead(df_view.rows, TopN) :
          /\ top_districts' = t
          /\ rendered' = rendered \cup
                {IF t # <<>> THEN "hotspot_chart" ELSE "no_data_info"}
    /\ pc' = "alerts"
    /\ UNCHANGED <<demo_csv, enrol_csv, cache, cache_src, df, selected_state,
                   df_view, kpi, alerts>>

\* lines 159-185
AlertTable ==
    /\ pc = "alerts"
    /\ alerts' = PriorityAlerts(df_view.rows)
    /\ rendered' = rendered \cup
          {IF PriorityAlerts(df_view.rows) # <<>> THEN "alert_table" ELSE "no_alerts"}
    /\ pc' = "raw"
    /\ UNCHANGED <<demo_csv, enrol_csv, cache, cache_src, df, selected_state,
                   df_view, kpi, top_districts>>

\* lines 190-191
RawData ==
    /\ pc = "raw"
    /\ rendered' = rendered \cup {"raw_table"}
    /\ pc' = "done"
    /\ UNCHANGED <<demo_csv, enrol_csv, cache, cache_src, df, selected_state,
                   df_view, kpi, top_districts, alerts>>

\* Streamlit runs the script again from the top (a widget change, a reload);
\* the cache outlives the run, the script's variables do not
Rerun ==
    /\ pc \in {"done", "stopped", "raised"}
    /\ pc' = "load"
    /\ FreshRun
    /\ UNCHANGED <<demo_csv, enrol_csv, cache, cache_src>>

\* The files change between runs: a missing file is added, a row is appended,
\* a file is damaged.
CreateDemo ==
    /\ pc = "load"
    /\ demo_csv.st = "missing"
    /\ demo_csv' = Ok(<<>>)
    /\ UNCHANGED <<enrol_csv, cache, cache_src, pc, df, selected_state,
                   df_view, kpi, top_districts, alerts, rendered>>

CreateEnrol ==
    /\ pc = "load"
    /\ enrol_csv.st = "missing"
    /\ enrol_csv' = Ok(<<>>)
    /\ UNCHANGED <<demo_csv, cache, cache_src, pc, df, selected_state,
                   df_view, kpi, top_districts, alerts, rendered>>

AppendDemo(r) ==
    /\ pc = "load"
    /\ demo_csv.st = "ok"
    /\ Len(demo_csv.rows) < MaxRows
    /\ demo_csv' = Ok(Append(demo_csv.rows, r))
    /\ UNCHANGED <<enrol_csv, cache, cache_src, pc, df, selected_state,
                   df_view, kpi, top_districts, alerts, rendered>>

AppendEnrol(r) ==
    /\ pc = "load"
    /\ enrol_csv.st = "ok"
    /\ Len(enrol_csv.rows) < MaxRows
    /\ enrol_csv' = Ok(Append(enrol_csv.rows, r))
    /\ UNCHANGED <<demo_csv, cache, cache_src, pc, df, selected_state,
                   df_view, kpi, top_districts, alerts, rendered>>

CorruptDemo ==
    /\ pc = "load"
    /\ demo_csv.st = "ok"
    /\ demo_csv' = Malformed
    /\ UNCHANGED <<enrol_csv, cache, cache_src, pc, df, selected_state,
                   df_view, kpi, top_districts, alerts, rendered>>

CorruptEnrol ==
    /\ pc = "load"
    /\ enrol_csv.st = "ok"
    /\ enrol_csv' = Malformed
    /\ UNCHANGED <<demo_csv, cache, cache_src, pc, df, selected_state,
                   df_view, kpi, top_districts, alerts, rendered>>

Script ==
    \/ LoadHit
    \/ LoadCompute
    \/ LoadRaise
    \/ \E s \in state_list(df.rows) : SidebarSelect(s)
    \/ SidebarStop
    \/ Metrics
    \/ Chart
    \/ AlertTable
    \/ RawData
    \/ Rerun

Next ==
    \/ Script
    \/ CreateDemo
    \/ CreateEnrol
    \/ \E r \in DemoRows : AppendDemo(r)
    \/ \E r \in EnrolRows : AppendEnrol(r)
    \/ CorruptDemo
    \/ CorruptEnrol

\* the script over the small input family, the files changing between runs
Spec == Init /\ [][Next]_vars

\* the script over the large input family, the files left alone
SpecView == InitView /\ [][Script]_vars

-----------------------------------------------------------------------------
(* What the properties are stated with. *)

KeysOf(rows) == {Key(rows[i]) : i \in DOMAIN rows}

\* the sum of column col over the rows with the indices in I
RECURSIVE IndexSum(_, _, _)
IndexSum(rows, col, I) ==
    IF I = {} THEN 0
    ELSE LET i == CHOOSE x \in I : TRUE
         IN  rows[i][col] + IndexSum(rows, col, I \ {i})

\* the total of column col over the source rows with key k
SourceTotal(rows, col, k) ==
    IndexSum(rows, col, {i \in DOMAIN rows : Key(rows[i]) = k})

Abs(x) == IF x < 0 THEN -x ELSE x

\* v / scale is a multiple of 1 / scale nearest to num / den
Nearest(v, scale, num, den) == 2 * Abs(v * den - scale * num) <= den

\* the two files the table in df was computed from were both read
Loaded == cache_src.demo.st = "ok" /\ cache_src.enrol.st = "ok"

\* the rows of df that pass the region filter
Filtered ==
    {df.rows[i] : i \in {j \in DOMAIN df.rows :
        selected_state = AllIndia \/ df.rows[j].state = selected_state}}

\* the place of a row in df
Pos(r) == CHOOSE i \in DOMAIN df.rows : Key(df.rows[i]) = Key(r)

ChartDone == pc \in {"alerts", "raw", "done"}
AlertsDone == pc \in {"raw", "done"}

\* an alert row without its priority_index
Strip(a) ==
    [state |-> a.state, district |-> a.district, demo_age_17_ |-> a.demo_age_17_,
     age_0_5 |-> a.age_0_5, Migration_Score |-> a.Migration_Score,
     Status |-> a.Status, Grain_Demand_MT |-> a.Grain_Demand_MT]

-----------------------------------------------------------------------------
(* The properties. *)

\* C1: the keys of the table load_and_process_data returns are exactly the keys
\* present in both files it read, each in one row.
InnerJoinKeys ==
    df.kind = "table" =>
        /\ Loaded
        /\ KeysOf(df.rows) = KeysOf(cache_src.demo.rows) \cap KeysOf(cache_src.enrol.rows)
        /\ Cardinality(KeysOf(df.rows)) = Len(df.rows)

\* C1, reached: a table with a row, while a district of the demographic file
\* that the enrolment file lacks is left out.
InnerJoinKeysWitness ==
    /\ df.kind = "table"
    /\ df.rows # <<>>
    /\ KeysOf(cache_src.demo.rows) \ KeysOf(cache_src.enrol.rows) # {}

\* C2: each row's score is the quotient of the summed demo_age_17_ of its key by
\* the summed age_0_5 of its key plus one, rounded to the nearest hundredth; the
\* divisor is positive.
ScoreFormula ==
    df.kind = "table" =>
        \A i \in DOMAIN df.rows :
            LET r == df.rows[i]
                num == SourceTotal(cache_src.demo.rows, "demo_age_17_", Key(r))
                den == SourceTotal(cache_src.enrol.rows, "age_0_5", Key(r)) + 1
            IN  /\ den > 0
                /\ r.demo_age_17_ = num
                /\ r.age_0_5 + 1 = den
                /\ Nearest(r.Migration_Score, ScoreScale, num, den)
                /\ (num = 120 /\ den = 2) => r.Migration_Score = 6000

\* C2, reached: two source rows of one district summed to 20, over an enrolment
\* total of 1 + 1, the quotient 20 / 3 rounded up to 6.67.
ScoreFormulaWitness ==
    /\ df.kind = "table"
    /\ Len(cache_src.demo.rows) = 2
    /\ \E i \in DOMAIN df.rows :
          /\ df.rows[i].demo_age_17_ = 20
          /\ df.rows[i].age_0_5 = 2
          /\ df.rows[i].Migration_Score = 667

\* C3: each row has one of the three statuses, fixed by its rounded score:
\* CRITICAL above 50, WARNING above 20 up to 50, STABLE up to 20.
StatusThresholds ==
    df.kind = "table" =>
        \A i \in DOMAIN df.rows :
            LET r == df.rows[i]
                score == r.Migration_Score
            IN  /\ r.Status \in {"STABLE", "WARNING", "CRITICAL"}
                /\ r.Status = "CRITICAL" <=> score > 50 * ScoreScale
                /\ r.Status = "WARNING" <=>
                      (20 * ScoreScale < score /\ score <= 50 * ScoreScale)
                /\ r.Status = "STABLE" <=> score <= 20 * ScoreScale

\* C3, reached: a table with a score of exactly 50 classed WARNING, a score
\* rounded down to exactly 20 from a quotient above 20 classed STABLE, and one
\* above 50 classed CRITICAL.
StatusThresholdsWitness ==
    /\ df.kind = "table"
    /\ \E i, j, k \in DOMAIN df.rows :
          /\ df.rows[i].Migration_Score = 5000 /\ df.rows[i].Status = "WARNING"
          /\ df.rows[j].Migration_Score = 2000 /\ df.rows[j].Status = "STABLE"
          /\ df.rows[j].demo_age_17_ > 20 * (df.rows[j].age_0_5 + 1)
          /\ df.rows[k].Migration_Score > 5000 /\ df.rows[k].Status = "CRITICAL"

\* C4: a run whose call of load_and_process_data is over, with one of the two
\* files missing or malformed, has df = None.
UnreadableYieldsNone ==
    (pc # "load" /\ (demo_csv.st # "ok" \/ enrol_csv.st # "ok")) =>
        (pc # "raised" /\ df = NoneResult)

\* C5: the value load_and_process_data returns is the one the body yields on the
\* files as they are now (where the body returns on them at all).
ServedMatchesInputs ==
    (pc = "sidebar" /\ LoadBody(demo_csv, enrol_csv).kind # "raise") =>
        df = LoadBody(demo_csv, enrol_csv)

\* C6: the hotspot view holds min(10, n) of the n filtered rows, each once, by
\* descending score, and no filtered row outside it beats a row in it.
HotspotView ==
    (ChartDone /\ df.kind = "table") =>
        /\ df_view.rows = FilterState(df.rows, selected_state)
        /\ Len(top_districts) =
              (IF Cardinality(Filtered) < 10 THEN Cardinality(Filtered) ELSE 10)
        /\ Range(top_districts) \subseteq Filtered
        /\ Cardinality(Range(top_districts)) = Len(top_districts)
        /\ \A i, j \in DOMAIN top_districts :
              i < j => top_districts[i].Migration_Score >= top_districts[j].Migration_Score
        /\ \A r \in Filtered \ Range(top_districts) : \A t \in Range(top_districts) :
              r.Migration_Score <= t.Migration_Score

\* C6, reached: more than 10 filtered rows, 10 of them in the view.
HotspotViewWitness ==
    /\ pc = "done"
    /\ Cardinality(Filtered) > 10
    /\ Len(top_districts) = 10

\* C7: rows of equal score stand in the hotspot view in their order in the
\* table, and of a tie across the cut the earlier rows are the ones kept.
StableTies ==
    (ChartDone /\ df.kind = "table") =>
        /\ \A i, j \in DOMAIN top_districts :
              (i < j /\ top_districts[i].Migration_Score = top_districts[j].Migration_Score)
                  => Pos(top_districts[i]) < Pos(top_districts[j])
        /\ \A r \in Filtered \ Range(top_districts) : \A t \in Range(top_districts) :
              r.Migration_Score = t.Migration_Score => Pos(t) < Pos(r)

\* C8: the alert view holds exactly the filtered CRITICAL and WARNING rows, each
\* once, CRITICAL before WARNING, and by non-increasing grain demand within a
\* status.
AlertView ==
    (AlertsDone /\ df.kind = "table") =>
        /\ {Strip(alerts[i]) : i \in DOMAIN alerts} =
              {r \in Filtered : r.Status \in {"CRITICAL", "WARNING"}}
        /\ Cardinality(KeysOf(alerts)) = Len(alerts)
        /\ \A i, j \in DOMAIN alerts : i < j =>
              /\ ~(alerts[i].Status = "WARNING" /\ alerts[j].Status = "CRITICAL")
              /\ alerts[i].Status = alerts[j].Status =>
                    alerts[i].Grain_Demand_MT >= alerts[j].Grain_Demand_MT

\* C8, reached: a CRITICAL row ahead of a WARNING row of greater grain demand,
\* two rows of one status and different demand, and a STABLE row kept out.
AlertViewWitness ==
    /\ pc = "done"
    /\ \E i, j \in DOMAIN alerts :
          /\ i < j
          /\ alerts[i].Status = "CRITICAL" /\ alerts[j].Status = "WARNING"
          /\ alerts[i].Grain_Demand_MT < alerts[j].Grain_Demand_MT
    /\ \E i, j \in DOMAIN alerts :
          /\ alerts[i].Status = alerts[j].Status
          /\ alerts[i].Grain_Demand_MT > alerts[j].Grain_Demand_MT
    /\ \E r \in Filtered : r.Status = "STABLE"

\* C9: a run that got None shows only the "data missing" error and stops below
\* the sidebar; nothing below the sidebar runs while df_view is unassigned.
UnavailableBlocks ==
    /\ df.kind = "None" =>
          /\ pc \in {"sidebar", "stopped"}
          /\ rendered \subseteq {"data_missing"}
          /\ pc = "stopped" => rendered = {"data_missing"}
    /\ df_view.kind = "unset" =>
          /\ pc \in {"load", "sidebar", "stopped", "raised"}
          /\ rendered \cap {"current_view", "kpi_row", "hotspot_chart", "no_data_info",
                            "alert_table", "no_alerts", "raw_table"} = {}
          /\ top_districts = <<>>
          /\ alerts = <<>>

\* C9, reached: the run stopped on the error, with nothing else on the page.
UnavailableBlocksWitness ==
    /\ pc = "stopped"
    /\ df.kind = "None"
    /\ rendered = {"data_missing"}

\* C10: each row's grain demand is 0.02 times the summed demo_age_17_ of its
\* key, rounded to the nearest tenth, and not negative.
GrainFormula ==
    df.kind = "table" =>
        \A i \in DOMAIN df.rows :
            LET r == df.rows[i]
                total == SourceTotal(cache_src.demo.rows, "demo_age_17_", Key(r))
            IN  /\ Nearest(r.Grain_Demand_MT, GrainScale, 2 * total, 100)
                /\ r.Grain_Demand_MT >= 0
                /\ total = 120 => r.Grain_Demand_MT = 24

\* C10, reached: a total of 120 with a demand of 2.4.
GrainFormulaWitness ==
    /\ df.kind = "table"
    /\ \E i \in DOMAIN df.rows :
          df.rows[i].demo_age_17_ = 120 /\ df.rows[i].Grain_Demand_MT = 24

====
